---------------------------- MODULE Spec2Model ----------------------------
(***************************************************************************)
(* A model of src/ext2.c, the ext2 inode inspector: one run of main() on   *)
(* one device image, one path argument and one request argument.           *)
(*                                                                         *)
(* Text is a sequence of byte values (47 is '/', 97 is 'a', 98 is 'b').    *)
(* A device image lists the superblock fields, the group descriptor table, *)
(* the inodes, and for each block the leading 32-bit words it holds (read  *)
(* as block pointers) and the directory entries it holds by byte offset;   *)
(* every byte of the device an image does not list is zero.                *)
(* Directory entry names hold no NUL byte and file_type is below           *)
(* EXT2_FT_MAX in every image, so memcmp never reads past the NUL of the   *)
(* search name and _ft_to_str is never indexed outside its bounds.         *)
(***************************************************************************)
EXTENDS Integers, Sequences, FiniteSets, TLC

VARIABLES image, argc, path, reqarg, pc, toks, tok_i, ino, req, fd, status,
          err, out, loads, lookups, visits

vars == <<image, argc, path, reqarg, pc, toks, tok_i, ino, req, fd, status,
          err, out, loads, lookups, visits>>

(***************************************************************************)
(* Bounds of the model.                                                    *)
(***************************************************************************)
\* longest path argument, in bytes
MaxPathLen == 4
\* leading words an index block lists; the rest of the block is zero
MaxPtrs == 2

(***************************************************************************)
(* Program constants.                                                      *)
(***************************************************************************)
MAX_PATH_TOKS == 256
REQUEST_TYPE_INODE == 0
REQUEST_TYPE_DATA == 1
REQUEST_TYPE_INVALID == 2
EXT2_BAD_INO == 1
EXT2_ROOT_INO == 2
EXT2_NDIR_BLOCKS == 12
EXT2_IND_BLOCK == 12
EXT2_DIND_BLOCK == 13
EXT2_TIND_BLOCK == 14
EXT2_N_BLOCKS == 15
EXT2_FT_REG_FILE == 1
EXT2_FT_DIR == 2
EXIT_SUCCESS == 0
EXIT_FAILURE == 1

S_IFDIR == 16384
S_IFREG == 32768

\* (ino_st)->i_mode & 0xF000
FileTypeNibble(i_mode) == (i_mode \div 4096) * 4096
EXT2_IS_INODE_DIR(ino_st) == FileTypeNibble(ino_st.i_mode) = S_IFDIR
EXT2_IS_INODE_REG_FILE(ino_st) == FileTypeNibble(ino_st.i_mode) = S_IFREG

\* the macros of <ext2fs/ext2_fs.h> the program uses on its superblock
EXT2_BLOCK_SIZE(sb) == 1024 * (2 ^ sb.s_log_block_size)
EXT2_ADDR_PER_BLOCK(sb) == EXT2_BLOCK_SIZE(sb) \div 4
EXT2_INODES_PER_GROUP(sb) == sb.s_inodes_per_group
EXT2_DESC_SIZE(sb) == 32
EXT2_INODE_SIZE(sb) == IF sb.s_rev_level = 0 THEN 128 ELSE sb.s_inode_size

(***************************************************************************)
(* The device: what a read at a byte offset returns.                       *)
(***************************************************************************)
ZeroInode == [i_mode |-> 0, i_size |-> 0, i_block |-> [s \in 1..15 |-> 0]]
ZeroDirEnt == [inode |-> 0, rec_len |-> 0, name_len |-> 0, file_type |-> 0,
               name |-> <<>>]

\* the block after the superblock's block holds the group descriptor table
GdtBase(d) ==
    IF d.sb.s_log_block_size = 0 THEN 2048 ELSE 1024 * (2 ^ d.sb.s_log_block_size)

\* _ext2_read(off, &grp_desc, ...): the bg_inode_table of the record read at
\* off.  Offsets 1024 + 32g lie in the superblock, whose words at 8 and 40 are
\* s_r_blocks_count and s_inodes_per_group.
ReadGroupDesc(d, off) ==
    IF \E g \in DOMAIN d.gdt : off = GdtBase(d) + (g - 1) * 32
    THEN d.gdt[CHOOSE g \in DOMAIN d.gdt : off = GdtBase(d) + (g - 1) * 32]
    ELSE IF off = 1024 THEN d.sb.s_r_blocks_count
    ELSE IF off = 1056 THEN d.sb.s_inodes_per_group
    ELSE 0

\* _ext2_read(off, p_ino_st, sizeof(struct ext2_inode))
InodeOffset(d, n) ==
    d.gdt[((n - 1) \div d.sb.s_inodes_per_group) + 1] * EXT2_BLOCK_SIZE(d.sb)
      + ((n - 1) % d.sb.s_inodes_per_group) * d.sb.s_inode_size
ReadInode(d, off) ==
    IF \E n \in DOMAIN d.inodes : off = InodeOffset(d, n)
    THEN d.inodes[CHOOSE n \in DOMAIN d.inodes : off = InodeOffset(d, n)]
    ELSE ZeroInode

\* _ext2_read(blk_off + 4 * i, &nxt_blk_addr, 4)
ReadPtr(d, blk, i) ==
    IF blk \in DOMAIN d.ptrs /\ i < Len(d.ptrs[blk]) THEN d.ptrs[blk][i + 1] ELSE 0

\* _ext2_read(blk_off + i, &dir_ent, EXT2_DIR_ENTRY_SIZE)
ReadDirEnt(d, blk, i) ==
    IF blk \in DOMAIN d.ents /\ i \in DOMAIN d.ents[blk] THEN d.ents[blk][i]
    ELSE ZeroDirEnt


(***************************************************************************)
(* Utility: request keyword and path tokens.                               *)
(***************************************************************************)
_get_req_type(arg) ==
    IF arg = "inode" THEN REQUEST_TYPE_INODE
    ELSE IF arg = "data" THEN REQUEST_TYPE_DATA
    ELSE REQUEST_TYPE_INVALID

\* strspn(s, delim) and strcspn(s, delim); delim is the set of delimiter bytes
RECURSIVE Strspn(_, _)
Strspn(s, delim) ==
    IF s # <<>> /\ Head(s) \in delim THEN 1 + Strspn(Tail(s), delim) ELSE 0
RECURSIVE Strcspn(_, _)
Strcspn(s, delim) ==
    IF s # <<>> /\ Head(s) \notin delim THEN 1 + Strcspn(Tail(s), delim) ELSE 0

\* strtok_r(s, delim, &save) with s not NULL: the token (null when none is
\* left) and the text the save pointer is left at
strtok_r(s, delim) ==
    LET t == SubSeq(s, Strspn(s, delim) + 1, Len(s))
        n == Strcspn(t, delim)
    IN  IF t = <<>> THEN [null |-> TRUE, tok |-> <<>>, save |-> <<>>]
        ELSE IF n = Len(t) THEN [null |-> FALSE, tok |-> t, save |-> <<>>]
        ELSE [null |-> FALSE, tok |-> SubSeq(t, 1, n),
              save |-> SubSeq(t, n + 2, Len(t))]

\* a tokenizer that keeps the empty fields between delimiters (strsep)
RECURSIVE _get_toks_strsep(_, _)
_get_toks_strsep(arg, delim) ==
    IF Strcspn(arg, delim) = Len(arg) THEN <<arg>>
    ELSE <<SubSeq(arg, 1, Strcspn(arg, delim))>>
           \o _get_toks_strsep(SubSeq(arg, Strcspn(arg, delim) + 2, Len(arg)), delim)

\* while (tok = strtok_r(arg, delim, &arg)) toks[tok_i++] = strdup(tok)
RECURSIVE _get_toks(_, _)
_get_toks(arg, delim) ==
    LET r == strtok_r(arg, delim)
    IN  IF r.null THEN <<>> ELSE <<r.tok>> \o _get_toks(r.save, delim)

(***************************************************************************)
(* Inode loader.  The body of a C block that names a local variable is an  *)
(* operator taking the variable's value.                                   *)
(***************************************************************************)
\* grp_nb and grp_desc_off of _ext2_ino_to_ino_st, for n >= 1
GrpDescOff(sb, n) ==
    EXT2_BLOCK_SIZE(sb)
      + ((n - 1) \div EXT2_INODES_PER_GROUP(sb)) * EXT2_DESC_SIZE(sb)

\* ino_tab_off, ino_idx and ino_off of _ext2_ino_to_ino_st
InoOff(sb, n, bg_inode_table) ==
    bg_inode_table * EXT2_BLOCK_SIZE(sb)
      + ((n - 1) % EXT2_INODES_PER_GROUP(sb)) * EXT2_INODE_SIZE(sb)

\* the two reads of a load and the inode obtained
LoadRecord(d, n, grp_desc_off, bg_inode_table, ino_off) ==
    [ino |-> n, grp_desc_off |-> grp_desc_off,
     bg_inode_table |-> bg_inode_table, ino_off |-> ino_off,
     ino_st |-> ReadInode(d, ino_off)]

LoadVia(d, n, grp_desc_off, bg_inode_table) ==
    LoadRecord(d, n, grp_desc_off, bg_inode_table, InoOff(d.sb, n, bg_inode_table))

_ext2_ino_to_ino_st(d, n) ==
    LoadVia(d, n, GrpDescOff(d.sb, n), ReadGroupDesc(d, GrpDescOff(d.sb, n)))

(***************************************************************************)
(* Directory lookup.  An event is a leaf block handed to the block scan or *)
(* a zero block number read.                                               *)
(***************************************************************************)
Leaf(blk) == [t |-> "leaf", blk |-> blk]
Zero == [t |-> "zero", blk |-> 0]

\* the bytes of the NUL-terminated search name
CStr(s) == s \o <<0>>

\* !memcmp(nxt_arg, dir_ent.name, dir_ent.name_len)
MemcmpEqual(nxt_arg, name, name_len) ==
    \A k \in 1..name_len : k <= Len(nxt_arg) + 1 /\ CStr(nxt_arg)[k] = name[k]

\* the body of the while loop of _ext2_dir_search on the entry read; rest is
\* the loop's result from the advanced cursor; hang: the cursor does not
\* advance
DirSearchEntry(nxt_arg, dir_ent, rest) ==
    IF MemcmpEqual(nxt_arg, dir_ent.name, dir_ent.name_len)
    THEN [hang |-> FALSE, ino |-> dir_ent.inode]
    ELSE IF dir_ent.rec_len = 0 THEN [hang |-> TRUE, ino |-> 0]
    ELSE rest

\* i + dir_ent.rec_len
Advance(i, dir_ent) == i + dir_ent.rec_len

\* the while loop of _ext2_dir_search with the cursor at i
RECURSIVE DirSearchFrom(_, _, _, _)
DirSearchFrom(d, blk_addr, nxt_arg, i) ==
    IF ~(i < EXT2_BLOCK_SIZE(d.sb)) THEN [hang |-> FALSE, ino |-> EXT2_BAD_INO]
    ELSE DirSearchEntry(nxt_arg, ReadDirEnt(d, blk_addr, i),
                        DirSearchFrom(d, blk_addr, nxt_arg,
                                      Advance(i, ReadDirEnt(d, blk_addr, i))))

SearchedLeaf(r, blk_addr) ==
    [hang |-> r.hang, ino |-> r.ino, ev |-> <<Leaf(blk_addr)>>]

_ext2_dir_search(d, blk_addr, nxt_arg) ==
    SearchedLeaf(DirSearchFrom(d, blk_addr, nxt_arg, 0), blk_addr)

\* if (nxt_ino > EXT2_BAD_INO) return nxt_ino; i++: r is the search of the
\* block at hand, rest the loop's result from the next index
SearchNext(r, rest) ==
    IF r.hang \/ r.ino > EXT2_BAD_INO THEN r
    ELSE [hang |-> rest.hang, ino |-> rest.ino, ev |-> r.ev \o rest.ev]

\* if (!nxt_blk_addr) return EXT2_BAD_INO
SearchPtr(nxt_blk_addr, found) ==
    IF nxt_blk_addr = 0
    THEN [hang |-> FALSE, ino |-> EXT2_BAD_INO, ev |-> <<Zero>>]
    ELSE found

\* the while loop of _ext2_indir_search with the index at i
RECURSIVE IndirSearchFrom(_, _, _, _, _)
IndirSearchFrom(d, blk_addr, nxt_arg, indir_level, i) ==
    IF ~(i < EXT2_ADDR_PER_BLOCK(d.sb))
    THEN [hang |-> FALSE, ino |-> EXT2_BAD_INO, ev |-> <<>>]
    ELSE SearchPtr(ReadPtr(d, blk_addr, i),
           SearchNext(
             IF indir_level = 1
             THEN _ext2_dir_search(d, ReadPtr(d, blk_addr, i), nxt_arg)
             ELSE IndirSearchFrom(d, ReadPtr(d, blk_addr, i), nxt_arg,
                                  indir_level - 1, 0),
             IndirSearchFrom(d, blk_addr, nxt_arg, indir_level, i + 1)))

_ext2_indir_search(d, blk_addr, nxt_arg, indir_level) ==
    IndirSearchFrom(d, blk_addr, nxt_arg, indir_level, 0)

\* the search of the block of slot i of i_block
SearchSlot(d, blk_addr, nxt_arg, i) ==
    IF i < EXT2_NDIR_BLOCKS THEN _ext2_dir_search(d, blk_addr, nxt_arg)
    ELSE IF i = EXT2_IND_BLOCK THEN _ext2_indir_search(d, blk_addr, nxt_arg, 1)
    ELSE IF i = EXT2_DIND_BLOCK THEN _ext2_indir_search(d, blk_addr, nxt_arg, 2)
    ELSE _ext2_indir_search(d, blk_addr, nxt_arg, 3)

\* the while loop of _ext2_nxt_ino with the slot at i
RECURSIVE NxtInoFrom(_, _, _, _)
NxtInoFrom(d, ino_st, nxt_arg, i) ==
    IF ~(i < EXT2_N_BLOCKS) THEN [hang |-> FALSE, ino |-> EXT2_BAD_INO, ev |-> <<>>]
    ELSE SearchPtr(ino_st.i_block[i + 1],
           SearchNext(SearchSlot(d, ino_st.i_block[i + 1], nxt_arg, i),
                      NxtInoFrom(d, ino_st, nxt_arg, i + 1)))

NxtInoResult(r, ld) ==
    [kind |-> IF r.hang THEN "hang" ELSE "ret", ino |-> r.ino, ev |-> r.ev,
     loads |-> <<ld>>]

\* a lookup that searches the blocks of any inode
NxtInoOf_unchecked(d, ld, nxt_arg) ==
    NxtInoResult(NxtInoFrom(d, ld.ino_st, nxt_arg, 0), ld)

\* the inode loaded is checked before any block is searched
NxtInoOf(d, ld, nxt_arg) ==
    IF ~EXT2_IS_INODE_DIR(ld.ino_st)
    THEN [kind |-> "notdir", ino |-> 0, ev |-> <<>>, loads |-> <<ld>>]
    ELSE NxtInoResult(NxtInoFrom(d, ld.ino_st, nxt_arg, 0), ld)

\* kind: "notdir" (exit_err), "hang", or "ret" with the inode number returned
_ext2_nxt_ino(d, n, nxt_arg) == NxtInoOf(d, _ext2_ino_to_ino_st(d, n), nxt_arg)

(***************************************************************************)
(* Printers.  Standard output is a sequence of items: a run of device      *)
(* bytes written one by one (its first offset and its length), a directory *)
(* line, or a line of the inode dump.                                      *)
(***************************************************************************)
Bytes(off, len) == [t |-> "bytes", off |-> off, len |-> len]
DirLine(e) == [t |-> "dirent", inode |-> e.inode, file_type |-> e.file_type,
               name |-> SubSeq(e.name, 1, e.name_len)]

\* a printer that stops one byte short of the block's end
_ext2_dir_print_reg_file_short(d, blk_addr) ==
    [hang |-> FALSE,
     out |-> <<Bytes(blk_addr * EXT2_BLOCK_SIZE(d.sb), EXT2_BLOCK_SIZE(d.sb) - 1)>>]

\* the bytes blk_off + i for i = 0 .. block size - 1, in this order
_ext2_dir_print_reg_file(d, blk_addr) ==
    [hang |-> FALSE,
     out |-> <<Bytes(blk_addr * EXT2_BLOCK_SIZE(d.sb), EXT2_BLOCK_SIZE(d.sb))>>]

\* the body of the while loop of _ext2_dir_print_dir on the entry read;
\* hang: the cursor does not advance and the same line is printed for ever
DirPrintEntry(dir_ent, rest) ==
    IF dir_ent.rec_len = 0 THEN [hang |-> TRUE, out |-> <<DirLine(dir_ent)>>]
    ELSE [hang |-> rest.hang, out |-> <<DirLine(dir_ent)>> \o rest.out]

\* the while loop of _ext2_dir_print_dir with the cursor at i
RECURSIVE DirPrintDirFrom(_, _, _)
DirPrintDirFrom(d, blk_addr, i) ==
    IF ~(i < EXT2_BLOCK_SIZE(d.sb)) THEN [hang |-> FALSE, out |-> <<>>]
    ELSE DirPrintEntry(ReadDirEnt(d, blk_addr, i),
                       DirPrintDirFrom(d, blk_addr,
                                       Advance(i, ReadDirEnt(d, blk_addr, i))))

_ext2_dir_print_dir(d, blk_addr) == DirPrintDirFrom(d, blk_addr, 0)

PrintedLeaf(r, blk_addr) ==
    [hang |-> r.hang, out |-> r.out, ev |-> <<Leaf(blk_addr)>>]

_ext2_dir_print(d, blk_addr, file_type) ==
    PrintedLeaf(IF file_type = EXT2_FT_REG_FILE
                THEN _ext2_dir_print_reg_file(d, blk_addr)
                ELSE IF file_type = EXT2_FT_DIR
                THEN _ext2_dir_print_dir(d, blk_addr)
                ELSE [hang |-> FALSE, out |-> <<>>],
                blk_addr)

\* i++ and the next turn of the loop: r is the print of the block at hand,
\* rest the loop's result from the next index
PrintNext(r, rest) ==
    IF r.hang THEN r
    ELSE [hang |-> rest.hang, out |-> r.out \o rest.out, ev |-> r.ev \o rest.ev]

\* if (!nxt_blk_addr) return
PrintPtr(nxt_blk_addr, printed) ==
    IF nxt_blk_addr = 0 THEN [hang |-> FALSE, out |-> <<>>, ev |-> <<Zero>>]
    ELSE printed

\* the while loop of _ext2_indir_print with the index at i
RECURSIVE IndirPrintFrom(_, _, _, _, _)
IndirPrintFrom(d, blk_addr, file_type, indir_level, i) ==
    IF ~(i < EXT2_ADDR_PER_BLOCK(d.sb)) THEN [hang |-> FALSE, out |-> <<>>, ev |-> <<>>]
    ELSE PrintPtr(ReadPtr(d, blk_addr, i),
           PrintNext(
             IF indir_level = 1
             THEN _ext2_dir_print(d, ReadPtr(d, blk_addr, i), file_type)
             ELSE IndirPrintFrom(d, ReadPtr(d, blk_addr, i), file_type,
                                 indir_level - 1, 0),
             IndirPrintFrom(d, blk_addr, file_type, indir_level, i + 1)))

_ext2_indir_print(d, blk_addr, file_type, indir_level) ==
    IndirPrintFrom(d, blk_addr, file_type, indir_level, 0)

\* the print of the block of slot i of i_block
PrintSlot(d, blk_addr, file_type, i) ==
    IF i < EXT2_NDIR_BLOCKS THEN _ext2_dir_print(d, blk_addr, file_type)
    ELSE IF i = EXT2_IND_BLOCK THEN _ext2_indir_print(d, blk_addr, file_type, 1)
    ELSE IF i = EXT2_DIND_BLOCK THEN _ext2_indir_print(d, blk_addr, file_type, 2)
    ELSE _ext2_indir_print(d, blk_addr, file_type, 3)

\* the while loop of _ext2_print_ino_data with the slot at i
RECURSIVE PrintInoDataFrom(_, _, _, _)
PrintInoDataFrom(d, ino_st, file_type, i) ==
    IF ~(i < EXT2_N_BLOCKS) THEN [hang |-> FALSE, out |-> <<>>, ev |-> <<>>]
    ELSE PrintPtr(ino_st.i_block[i + 1],
           PrintNext(PrintSlot(d, ino_st.i_block[i + 1], file_type, i),
                     PrintInoDataFrom(d, ino_st, file_type, i + 1)))

PrintInoDataResult(r, ld) ==
    [kind |-> IF r.hang THEN "hang" ELSE "done", out |-> r.out, ev |-> r.ev,
     loads |-> <<ld>>]

\* the file type is chosen from the inode loaded, then the blocks are walked
PrintInoDataOf(d, ld) ==
    IF EXT2_IS_INODE_REG_FILE(ld.ino_st)
    THEN PrintInoDataResult(PrintInoDataFrom(d, ld.ino_st, EXT2_FT_REG_FILE, 0), ld)
    ELSE IF EXT2_IS_INODE_DIR(ld.ino_st)
    THEN PrintInoDataResult(PrintInoDataFrom(d, ld.ino_st, EXT2_FT_DIR, 0), ld)
    ELSE [kind |-> "unsupported", out |-> <<>>, ev |-> <<>>, loads |-> <<ld>>]

\* kind: "unsupported" (exit_err), "hang", or "done"
_ext2_print_ino_data(d, n) == PrintInoDataOf(d, _ext2_ino_to_ino_st(d, n))

\* the lines "Direct data block (i): ..." etc. from slot i on
RECURSIVE PrintBlockLinesFrom(_, _)
PrintBlockLinesFrom(ino_st, i) ==
    IF i < EXT2_N_BLOCKS /\ ino_st.i_block[i + 1] # 0
    THEN <<[t |-> "blockline", slot |-> i, blk |-> ino_st.i_block[i + 1]]>>
           \o PrintBlockLinesFrom(ino_st, i + 1)
    ELSE <<>>

PrintInoStOf(n, ld) ==
    [kind |-> "done",
     out |-> <<[t |-> "inode", ino |-> n,
                type |-> FileTypeNibble(ld.ino_st.i_mode),
                mode |-> ld.ino_st.i_mode % 4096,
                size |-> ld.ino_st.i_size]>>
               \o PrintBlockLinesFrom(ld.ino_st, 0),
     ev |-> <<>>, loads |-> <<ld>>]

_ext2_print_ino_st(d, n) == PrintInoStOf(n, _ext2_ino_to_ino_st(d, n))

\* kind: "invalid" (exit_err), or what the printer called ends with
ext2_print_ino(d, n, r) ==
    IF r = REQUEST_TYPE_INODE THEN _ext2_print_ino_st(d, n)
    ELSE IF r = REQUEST_TYPE_DATA THEN _ext2_print_ino_data(d, n)
    ELSE [kind |-> "invalid", out |-> <<>>, ev |-> <<>>, loads |-> <<>>]

(***************************************************************************)
(* Device images.  Every image has two block groups of 8 inodes with the   *)
(* inode tables at blocks 5 and 7, the root directory (inode 2) and the    *)
(* inodes 12 and 13 of group 1.                                            *)
(***************************************************************************)
Superblock(magic, log_block_size, r_blocks_count, inode_size) ==
    [s_magic |-> magic, s_log_block_size |-> log_block_size,
     s_inodes_per_group |-> 8, s_r_blocks_count |-> r_blocks_count,
     s_rev_level |-> 1, s_inode_size |-> inode_size]

GoodSuperblock == Superblock(61267, 1, 0, 128)

Inode(i_mode, i_size, i_block) ==
    [i_mode |-> i_mode, i_size |-> i_size, i_block |-> i_block]

\* an i_block array holding the given leading block numbers
IBlock(blks) == [s \in 1..15 |-> IF s <= Len(blks) THEN blks[s] ELSE 0]

DirEnt(inode, file_type, name) ==
    [inode |-> inode, rec_len |-> 0, name_len |-> Len(name),
     file_type |-> file_type, name |-> name]

\* the record length mke2fs gives an entry: 8 bytes and the name, 4-aligned
RecLen(e) == 8 + 4 * ((e.name_len + 3) \div 4)

RECURSIVE EntryOffset(_, _)
EntryOffset(es, k) == IF k = 1 THEN 0 ELSE EntryOffset(es, k - 1) + RecLen(es[k - 1])

\* A directory block of block_size bytes holding the entries es.  In a
\* consistent block (fill) the last entry's rec_len extends to the end of
\* the block; in a corrupt one it is 0.
DirBlock(es, block_size, fill) ==
    [o \in {EntryOffset(es, k) : k \in 1..Len(es)} |->
        LET k == CHOOSE j \in 1..Len(es) : EntryOffset(es, j) = o
        IN  [es[k] EXCEPT !.rec_len = IF k < Len(es) THEN RecLen(es[k])
                                      ELSE IF fill THEN block_size - o
                                      ELSE 0]]

Image(sb, present, inodes, ptrs, ents) ==
    [present |-> present, sb |-> sb, gdt |-> <<5, 7>>, inodes |-> inodes,
     ptrs |-> ptrs, ents |-> ents]

\* /a is inode 12 and /a/b is inode 13, a regular file of 14 bytes
SubDirEntries == <<DirEnt(13, 1, <<98>>), DirEnt(12, 2, <<97>>)>>

\* Directory images: the root directory holds the entries es, all in block
\* 10 or (split) the first in block 10 and the rest in block 11; its last
\* block is consistent or not (fill); inode 12 has the mode sub_mode.
DirImage(sb, present, es, split, fill, sub_mode) ==
    Image(sb, present,
          (2 :> Inode(S_IFDIR + 493, 2 * EXT2_BLOCK_SIZE(sb),
                      IBlock(IF split THEN <<10, 11>> ELSE <<10>>)))
          @@ (12 :> Inode(sub_mode, EXT2_BLOCK_SIZE(sb), IBlock(<<30>>)))
          @@ (13 :> Inode(S_IFREG + 420, 14, IBlock(<<31>>))),
          <<>>,
          (IF split
           THEN (10 :> DirBlock(<<Head(es)>>, EXT2_BLOCK_SIZE(sb), TRUE))
                @@ (11 :> DirBlock(Tail(es), EXT2_BLOCK_SIZE(sb), fill))
           ELSE (10 :> DirBlock(es, EXT2_BLOCK_SIZE(sb), fill)))
          @@ (30 :> DirBlock(SubDirEntries, EXT2_BLOCK_SIZE(sb), TRUE)))

RootEntries ==
    { DirEnt(12, 2, <<97>>), DirEnt(13, 1, <<97>>), DirEnt(0, 1, <<97>>),
      DirEnt(12, 2, <<97, 98>>), DirEnt(0, 1, <<97, 98>>), DirEnt(13, 1, <<>>) }

\* what the image variable holds: the parameters of a directory image
DirParams(sb, present, es, split, fill, sub_mode) ==
    [family |-> "dir", sb |-> sb, present |-> present, es |-> es,
     split |-> split, fill |-> fill, sub_mode |-> sub_mode]

DirImages ==
    { DirParams(GoodSuperblock, TRUE, <<e>>, FALSE, TRUE, m) :
        e \in RootEntries, m \in {S_IFDIR + 493, S_IFREG + 420} }
    \cup
    { DirParams(GoodSuperblock, TRUE, <<e1, e2>>, sp, TRUE, m) :
        e1 \in RootEntries, e2 \in RootEntries, sp \in BOOLEAN,
        m \in {S_IFDIR + 493, S_IFREG + 420} }

\* Corrupt images: the last entry of the root directory has rec_len 0
CorruptImages ==
    { DirParams(GoodSuperblock, TRUE, <<e1, e2>>, sp, FALSE, S_IFDIR + 493) :
        e1 \in RootEntries, e2 \in RootEntries, sp \in BOOLEAN }

\* Block-tree images.  A pointer position is a slot of i_block followed by
\* the indexes taken in the index blocks below it; an index block lists
\* MaxPtrs leading words.
SlotDepth(s) == IF s < 12 THEN 0 ELSE s - 11

Indexes == 0..(MaxPtrs - 1)

PtrPositions ==
    { <<s>> : s \in 0..14 }
    \cup { <<s, j>> : s \in 12..14, j \in Indexes }
    \cup { <<s, j, k>> : s \in 13..14, j \in Indexes, k \in Indexes }
    \cup { <<14, j, k, l>> : j \in Indexes, k \in Indexes, l \in Indexes }

IsLeafPosition(p) == Len(p) = SlotDepth(p[1]) + 1

RECURSIVE Radix(_)
Radix(js) == IF js = <<>> THEN 0 ELSE Radix(SubSeq(js, 1, Len(js) - 1)) * MaxPtrs + js[Len(js)]

\* the block number stored at a pointer position: distinct for distinct
\* positions
BlockAt(p) ==
    IF p[1] < 12 THEN 100 + p[1]
    ELSE 1000 * (p[1] - 11) + 100 * (Len(p) - 1) + Radix(Tail(p))

\* zeros: the pointer positions that hold 0
PtrValue(zeros, p) == IF p \in zeros THEN 0 ELSE BlockAt(p)

LeafEntries == <<DirEnt(12, 2, <<97, 97>>)>>

\* /a is inode 13 with the mode file_mode and the block tree given by zeros
TreeImage(sb, zeros, file_mode) ==
    Image(sb, TRUE,
          (2 :> Inode(S_IFDIR + 493, EXT2_BLOCK_SIZE(sb), IBlock(<<10>>)))
          @@ (13 :> Inode(file_mode, 14,
                          [s \in 1..15 |-> PtrValue(zeros, <<s - 1>>)])),
          [b \in {BlockAt(p) : p \in {q \in PtrPositions : ~IsLeafPosition(q)}} |->
              LET p == CHOOSE q \in PtrPositions : ~IsLeafPosition(q) /\ BlockAt(q) = b
              IN  [j \in 1..MaxPtrs |-> PtrValue(zeros, p \o <<j - 1>>)]],
          (10 :> DirBlock(<<DirEnt(13, 1, <<97>>)>>, EXT2_BLOCK_SIZE(sb), TRUE))
          @@ [b \in {BlockAt(p) : p \in {q \in PtrPositions : IsLeafPosition(q)}} |->
                DirBlock(LeafEntries, EXT2_BLOCK_SIZE(sb), TRUE)])

\* the positions a tree image may zero: slot 1, and slot 11 on
ZeroCandidates == { p \in PtrPositions : p[1] \in {1, 11, 12, 13, 14} }

\* what the image variable holds: the parameters of a block-tree image
TreeParams(sb, zeros, file_mode) ==
    [family |-> "tree", sb |-> sb, zeros |-> zeros, file_mode |-> file_mode]

TreeImages ==
    { TreeParams(GoodSuperblock, {p, q}, m) :
        p \in ZeroCandidates, q \in ZeroCandidates,
        m \in {S_IFREG + 420, S_IFDIR + 493} }
    \cup { TreeParams(GoodSuperblock, {}, m) : m \in {S_IFREG + 420, S_IFDIR + 493} }

\* Geometry images: every block size, a bad magic, both inode sizes, a
\* reserved-block count that is or is not the inode table's block number, a
\* device that cannot be opened, /a a directory or a fifo.
GeoImages ==
    { DirParams(Superblock(mg, lbs, rb, isz), pr, <<DirEnt(12, 2, <<97>>)>>, FALSE,
                TRUE, m) :
        mg \in {61267, 0}, lbs \in {0, 1, 2}, rb \in {5, 0}, isz \in {128, 256},
        pr \in BOOLEAN, m \in {S_IFDIR + 493, 4096 + 420} }

(***************************************************************************)
(* Inputs: path arguments over '/', 'a', 'b' and request keywords.         *)
(***************************************************************************)
RECURSIVE SeqsUpTo(_, _)
SeqsUpTo(S, n) ==
    IF n = 0 THEN {<<>>}
    ELSE LET shorter == SeqsUpTo(S, n - 1)
         IN  shorter \cup { Append(q, c) : q \in {x \in shorter : Len(x) = n - 1}, c \in S }

Paths == SeqsUpTo({47, 97, 98}, MaxPathLen)
Requests == {"inode", "data", "list"}

(***************************************************************************)
(* The run of main().  image gives the device image by its parameters; pc *)
(* is the place main() is at; fd is "none", "open" or "closed"; status is  *)
(* -1 until the process exits; loads lists the inode loads, lookups the    *)
(* calls of _ext2_nxt_ino, visits the events of the data printer, out the  *)
(* standard output, err the diagnostic.                                    *)
(***************************************************************************)
\* the device the run reads
dev ==
    IF image.family = "dir"
    THEN DirImage(image.sb, image.present, image.es, image.split, image.fill,
                  image.sub_mode)
    ELSE TreeImage(image.sb, image.zeros, image.file_mode)

Init ==
    /\ \/ /\ argc \in {2, 4}
          /\ image = DirParams(GoodSuperblock, TRUE, <<DirEnt(12, 2, <<97>>)>>, FALSE,
                              TRUE, S_IFDIR + 493)
          /\ path = <<47, 97>>
          /\ reqarg = "inode"
       \/ /\ argc = 3
          /\ image \in DirImages
          /\ path \in Paths
          /\ reqarg = "data"
       \/ /\ argc = 3
          /\ image \in CorruptImages
          /\ path \in {<<47>>, <<47, 97>>, <<47, 98>>, <<47, 97, 98, 47, 97>>}
          /\ reqarg \in {"inode", "data"}
       \/ /\ argc = 3
          /\ image \in TreeImages
          /\ path \in {<<47, 97>>, <<47, 97, 47, 98>>}
          /\ reqarg \in Requests
       \/ /\ argc = 3
          /\ image \in GeoImages
          /\ path \in {<<47>>, <<47, 97>>, <<47, 97, 47, 98>>}
          /\ reqarg \in Requests
    /\ pc = "main"
    /\ toks = <<>>
    /\ tok_i = 0
    /\ ino = 0
    /\ req = REQUEST_TYPE_INVALID
    /\ fd = "none"
    /\ status = -1
    /\ err = ""
    /\ out = <<>>
    /\ loads = <<>>
    /\ lookups = <<>>
    /\ visits = <<>>

\* exit_err(msg): the diagnostic and exit(EXIT_FAILURE); nothing else
exit_err(msg) ==
    /\ pc' = "exit"
    /\ status' = EXIT_FAILURE
    /\ err' = msg

\* main(): the check of argc
main_args ==
    /\ pc = "main"
    /\ IF argc # 3
       THEN exit_err("Invalid number of arguments")
       ELSE pc' = "init" /\ UNCHANGED <<status, err>>
    /\ UNCHANGED <<image, argc, path, reqarg, toks, tok_i, ino, req, fd, out,
                   loads, lookups, visits>>

\* ext2_init(): open the device and read the superblock
ext2_init ==
    /\ pc = "init"
    /\ IF ~dev.present
       THEN exit_err("Failed to open the device file") /\ UNCHANGED fd
       ELSE pc' = "path" /\ fd' = "open" /\ UNCHANGED <<status, err>>
    /\ UNCHANGED <<image, argc, path, reqarg, toks, tok_i, ino, req, out,
                   loads, lookups, visits>>

\* ext2_path_to_ino(): tokenize the path and start at the root; more than
\* MAX_PATH_TOKS tokens would be written past toks[]
ext2_path_to_ino_toks ==
    /\ pc = "path"
    /\ Len(_get_toks(path, {47})) <= MAX_PATH_TOKS
    /\ toks' = _get_toks(path, {47})
    /\ tok_i' = 0
    /\ ino' = EXT2_ROOT_INO
    /\ pc' = "walk"
    /\ UNCHANGED <<image, argc, path, reqarg, req, fd, status, err, out, loads,
                   lookups, visits>>

\* a check that lets the bad inode number through
LookupFailed_below_bad(n) == n < EXT2_BAD_INO

\* the check of the inode number _ext2_nxt_ino returned
LookupFailed(n) == n < EXT2_ROOT_INO

\* what one turn of the loop does with r, the result of _ext2_nxt_ino
StepWith(r) ==
    /\ lookups' = Append(lookups,
                         [parent |-> ino, name |-> toks[tok_i + 1],
                          load |-> r.loads[1],
                          kind |-> r.kind, ino |-> r.ino, ev |-> r.ev])
    /\ loads' = loads \o r.loads
    /\ IF r.kind = "notdir"
       THEN exit_err("The path consists of non-directory files")
            /\ UNCHANGED <<ino, tok_i>>
       ELSE IF r.kind = "hang"
       THEN pc' = "hang" /\ UNCHANGED <<ino, tok_i, status, err>>
       ELSE /\ ino' = r.ino
            /\ IF LookupFailed(r.ino)
               THEN exit_err("File search failed") /\ UNCHANGED tok_i
               ELSE tok_i' = tok_i + 1 /\ UNCHANGED <<pc, status, err>>

\* ext2_path_to_ino(): one turn of the loop over the tokens
ext2_path_to_ino_step ==
    /\ pc = "walk"
    /\ tok_i < Len(toks)
    /\ \E d \in {dev} :
          \E r \in {_ext2_nxt_ino(d, ino, toks[tok_i + 1])} : StepWith(r)
    /\ UNCHANGED <<image, argc, path, reqarg, toks, req, fd, out, visits>>

\* ext2_path_to_ino() returns the inode number; main() reads the request
ext2_path_to_ino_return ==
    /\ pc = "walk"
    /\ ~(tok_i < Len(toks))
    /\ req' = _get_req_type(reqarg)
    /\ pc' = "print"
    /\ UNCHANGED <<image, argc, path, reqarg, toks, tok_i, ino, fd, status, err,
                   out, loads, lookups, visits>>

\* what main() does with r, the result of ext2_print_ino
PrintWith(r) ==
    /\ out' = r.out
    /\ visits' = r.ev
    /\ loads' = loads \o r.loads
    /\ IF r.kind = "invalid"
       THEN exit_err("Invalid request")
       ELSE IF r.kind = "unsupported"
       THEN exit_err("File type not supported")
       ELSE IF r.kind = "hang"
       THEN pc' = "hang" /\ UNCHANGED <<status, err>>
       ELSE pc' = "deinit" /\ UNCHANGED <<status, err>>

\* ext2_print_ino(ino, req)
print_ino ==
    /\ pc = "print"
    /\ \E d \in {dev} :
          \E r \in {ext2_print_ino(d, ino, req)} : PrintWith(r)
    /\ UNCHANGED <<image, argc, path, reqarg, toks, tok_i, ino, req, fd, lookups>>

\* ext2_deinit() and exit(EXIT_SUCCESS)
ext2_deinit ==
    /\ pc = "deinit"
    /\ fd' = "closed"
    /\ status' = EXIT_SUCCESS
    /\ pc' = "exit"
    /\ UNCHANGED <<image, argc, path, reqarg, toks, tok_i, ino, req, err, out,
                   loads, lookups, visits>>

Next ==
    \/ main_args
    \/ ext2_init
    \/ ext2_path_to_ino_toks
    \/ ext2_path_to_ino_step
    \/ ext2_path_to_ino_return
    \/ print_ino
    \/ ext2_deinit

Spec == Init /\ [][Next]_vars

\* The runs on the directory images, consistent and corrupt, with the paths
\* that look names up in the root directory or list it.
ScanPaths == {<<47>>, <<47, 97>>, <<47, 98>>, <<47, 97, 98, 47, 97>>}
ScanInit ==
    /\ Init
    /\ image \in DirImages \cup CorruptImages
    /\ path \in ScanPaths

\* main() is one sequential process: a step it can take, it takes
LiveSpec == ScanInit /\ [][Next]_vars /\ WF_vars(Next)

(***************************************************************************)
(* What the properties speak of.                                           *)
(***************************************************************************)
Last(q) == q[Len(q)]

\* the non-empty '/'-separated components of a path, by position
ComponentStarts(p) == { i \in 1..Len(p) : p[i] # 47 /\ (i = 1 \/ p[i - 1] = 47) }
ComponentEnd(p, i) ==
    CHOOSE j \in i..Len(p) :
        /\ \A k \in i..j : p[k] # 47
        /\ (j = Len(p) \/ p[j + 1] = 47)
Components(p) ==
    [n \in 1..Cardinality(ComponentStarts(p)) |->
        LET i == CHOOSE c \in ComponentStarts(p) :
                    Cardinality({b \in ComponentStarts(p) : b < c}) = n - 1
        IN  SubSeq(p, i, ComponentEnd(p, i))]

\* the outcome of resolving a list of components from the inode cur: the
\* lookups of ext2_path_to_ino one after the other
RECURSIVE Resolve(_, _, _)
ResolveNext(d, r, comps) ==
    IF r.kind = "notdir" THEN [kind |-> "notdir", ino |-> 0]
    ELSE IF r.kind = "hang" THEN [kind |-> "hang", ino |-> 0]
    ELSE IF r.ino < 2 THEN [kind |-> "notfound", ino |-> 0]
    ELSE Resolve(d, r.ino, comps)
Resolve(d, cur, comps) ==
    IF comps = <<>> THEN [kind |-> "ok", ino |-> cur]
    ELSE ResolveNext(d, _ext2_nxt_ino(d, cur, Head(comps)), Tail(comps))

\* the path has been tokenized: the device is open and main() is past the
\* call of _get_toks
Tokenized == fd # "none" /\ pc # "path"
\* the outcome of the run's path resolution, once it has one
Resolved == Tokenized /\ ~(pc = "walk" /\ tok_i < Len(toks))
ResolveOutcome ==
    IF err = "The path consists of non-directory files"
    THEN [kind |-> "notdir", ino |-> 0]
    ELSE IF err = "File search failed" THEN [kind |-> "notfound", ino |-> 0]
    ELSE IF pc = "hang" /\ lookups # <<>> /\ Last(lookups).kind = "hang"
    THEN [kind |-> "hang", ino |-> 0]
    ELSE [kind |-> "ok", ino |-> ino]

\* the block number at a pointer position of an inode, and the positions
\* whose pointer and every earlier pointer of each enclosing block and of
\* i_block are non-zero
RECURSIVE PtrAt(_, _, _)
PtrAt(d, ino_st, p) ==
    IF Len(p) = 1 THEN ino_st.i_block[p[1] + 1]
    ELSE ReadPtr(d, PtrAt(d, ino_st, SubSeq(p, 1, Len(p) - 1)), p[Len(p)])
Reached(d, ino_st, p) ==
    \A n \in 1..Len(p) : \A j \in 0..p[n] :
        PtrAt(d, ino_st, SubSeq(p, 1, n - 1) \o <<j>>) # 0
ReachedLeaves(d, ino_st) ==
    { p \in PtrPositions : IsLeafPosition(p) /\ Reached(d, ino_st, p) }
\* logical file order of leaf positions
Before(p, q) == p[1] < q[1] \/ (p[1] = q[1] /\ Radix(Tail(p)) < Radix(Tail(q)))
InOrder(leaves) ==
    [n \in 1..Cardinality(leaves) |->
        CHOOSE p \in leaves : Cardinality({q \in leaves : Before(q, p)}) = n - 1]
BlocksAt(d, ino_st, ps) == [n \in 1..Len(ps) |-> PtrAt(d, ino_st, ps[n])]
LeafBlocks(d, ino_st) == BlocksAt(d, ino_st, InOrder(ReachedLeaves(d, ino_st)))
\* the full blocks blks of block_size bytes, one after the other
FullBlocks(blks, block_size) ==
    [n \in 1..Len(blks) |-> Bytes(blks[n] * block_size, block_size)]

\* the directory entries of a block, and its live entries named name
EntriesOf(d, blk) ==
    IF blk \in DOMAIN d.ents THEN { d.ents[blk][o] : o \in DOMAIN d.ents[blk] } ELSE {}
MatchOffsets(d, blk, name) ==
    IF blk \in DOMAIN d.ents
    THEN { o \in DOMAIN d.ents[blk] :
             /\ d.ents[blk][o].inode # 0
             /\ d.ents[blk][o].name_len = Len(name)
             /\ d.ents[blk][o].name = name }
    ELSE {}
Min(S) == CHOOSE x \in S : \A y \in S : x <= y
\* the inode of the first live entry named name in the blocks blks, 0 if none
FirstMatchIn(d, blk, name) == d.ents[blk][Min(MatchOffsets(d, blk, name))].inode
FirstMatchAmong(d, blks, name, hits) ==
    IF hits = {} THEN 0 ELSE FirstMatchIn(d, blks[Min(hits)], name)
FirstMatch(d, blks, name) ==
    FirstMatchAmong(d, blks, name,
                    { n \in 1..Len(blks) : MatchOffsets(d, blks[n], name) # {} })

LeafEvents(ev) == { ev[k].blk : k \in { j \in 1..Len(ev) : ev[j].t = "leaf" } }
NoLeafAfterZero(ev) ==
    \A i \in 1..Len(ev) : \A j \in 1..Len(ev) :
        ~(i < j /\ ev[i].t = "zero" /\ ev[j].t = "leaf")

RECURSIVE OutputLength(_)
OutputLength(o) ==
    IF o = <<>> THEN 0 ELSE Head(o).len + OutputLength(Tail(o))

(***************************************************************************)
(* Properties.                                                             *)
(***************************************************************************)
\* C1: directory lookup is sound: a lookup returns an inode number n only if
\* some entry of a block it scanned has inode n, inode # 0, name_len equal to
\* the length of the search name and the same name bytes; an entry whose
\* name is a strict prefix of the search name, or whose name_len is 0, is
\* never a match.
C1_LookupSound ==
    \A k \in 1..Len(lookups) :
        (lookups[k].kind = "ret" /\ lookups[k].ino > EXT2_BAD_INO) =>
            \E b \in LeafEvents(lookups[k].ev) : \E e \in EntriesOf(dev, b) :
                /\ e.inode = lookups[k].ino
                /\ e.inode # 0
                /\ e.name_len = Len(lookups[k].name)
                /\ e.name = lookups[k].name

\* A lookup l answers the first live exact match m (0 when there is none).
ReturnsFirstMatch(l, m) == m # 0 => (l.kind = "ret" /\ l.ino = m)

\* C2: directory lookup is complete and skips tombstones: when an enumerated
\* block of the parent directory holds a live entry named exactly as the
\* search name, the lookup returns the inode of the first such entry in
\* enumeration order, whatever precedes it.
C2_LookupComplete ==
    \A k \in 1..Len(lookups) :
        lookups[k].kind # "notdir" =>
            ReturnsFirstMatch(lookups[k],
                FirstMatch(dev, LeafBlocks(dev, lookups[k].load.ino_st),
                           lookups[k].name))

\* C3: path resolution depends only on the sequence of non-empty components
\* of the path: the tokens are that sequence, the outcome of the resolution
\* (an inode or a failure) is the outcome of looking the components up one
\* after the other from the root, and with no component the result is the
\* root inode 2 with no lookup and no inode load.
C3_ResolveByComponents ==
    /\ Tokenized => toks = Components(path)
    /\ Resolved => ResolveOutcome = Resolve(dev, EXT2_ROOT_INO, Components(path))
    /\ (pc = "print" /\ Components(path) = <<>>) =>
          ino = 2 /\ lookups = <<>> /\ loads = <<>>
C3_Witness ==
    /\ pc = "print"
    /\ path = <<97, 47, 47, 98>>
    /\ ino = 13

\* C4: enumeration of an inode's data blocks ends at the first zero block
\* number read at any level: after a zero pointer is read, no leaf block is
\* visited, by the data printer or by a directory lookup.
C4_StopsAtFirstZero ==
    /\ NoLeafAfterZero(visits)
    /\ \A k \in 1..Len(lookups) : NoLeafAfterZero(lookups[k].ev)

\* C5: a lookup failure is propagated where it occurs: when the lookup of a
\* component yields not-found, the run ends at once with the diagnostic
\* "File search failed" and a non-zero exit, no later component is looked
\* up, and no inode metadata or data is printed.
C5_LookupFailureEndsRun ==
    \A k \in 1..Len(lookups) :
        (lookups[k].kind = "ret" /\ lookups[k].ino = EXT2_BAD_INO) =>
            /\ k = Len(lookups)
            /\ pc = "exit"
            /\ status = EXIT_FAILURE
            /\ err = "File search failed"
            /\ out = <<>>
            /\ visits = <<>>
            /\ Len(loads) = Len(lookups)
C5_Witness ==
    /\ lookups # <<>>
    /\ Last(lookups).kind = "ret"
    /\ Last(lookups).ino = EXT2_BAD_INO
    /\ Len(lookups) < Len(toks)
    /\ pc = "exit"

\* C6: the device handle is released on every exit path: when the process
\* has exited and ext2_init had opened the device, the handle was closed.
C6_HandleReleased == (pc = "exit" /\ fd # "none") => fd = "closed"

\* C7: a path component that remains to be looked up in an inode that is not
\* a directory ends the run with the not-a-directory failure before any
\* block of that inode is scanned; the failure arises in no other way, so
\* the inode the last component reaches may be of any type.
C7_NonDirectoryParentFails ==
    /\ \A k \in 1..Len(lookups) :
          ~EXT2_IS_INODE_DIR(lookups[k].load.ino_st) =>
              /\ lookups[k].ev = <<>>
              /\ k = Len(lookups)
              /\ pc = "exit"
              /\ status = EXIT_FAILURE
              /\ err = "The path consists of non-directory files"
    /\ err = "The path consists of non-directory files" =>
          /\ lookups # <<>>
          /\ ~EXT2_IS_INODE_DIR(Last(lookups).load.ino_st)
    /\ (pc = "walk" /\ tok_i = Len(toks)) => status = -1
C7_Witness ==
    /\ pc = "exit"
    /\ err = "The path consists of non-directory files"
    /\ Len(lookups) = 2
    /\ EXT2_IS_INODE_REG_FILE(Last(lookups).load.ino_st)

\* C8: a data request on a regular file writes the full block_size bytes of
\* every leaf block of the enumeration, in logical file order (slots 0..11,
\* then the leaves under the single-, double- and triple-indirect slots by
\* ascending index); the output is not cut at i_size and is block_size times
\* the number of leaf blocks long.
C8_RegularDataFullBlocksInOrder ==
    (/\ pc = "deinit"
     /\ req = REQUEST_TYPE_DATA
     /\ EXT2_IS_INODE_REG_FILE(Last(loads).ino_st)) =>
        /\ out = FullBlocks(LeafBlocks(dev, Last(loads).ino_st),
                            EXT2_BLOCK_SIZE(dev.sb))
        /\ OutputLength(out) =
             EXT2_BLOCK_SIZE(dev.sb)
               * Cardinality(ReachedLeaves(dev, Last(loads).ino_st))
C8_Witness ==
    /\ pc = "deinit"
    /\ req = REQUEST_TYPE_DATA
    /\ EXT2_IS_INODE_REG_FILE(Last(loads).ino_st)
    /\ Len(out) > 14
    /\ OutputLength(out) > Last(loads).ino_st.i_size

\* C9: opening the volume validates the superblock magic: with s_magic other
\* than 0xEF53 the run fails and no path resolution, inode load or output
\* takes place.
C9_MagicValidated ==
    image.sb.s_magic # 61267 =>
        /\ pc \notin {"path", "walk", "print", "deinit", "hang"}
        /\ toks = <<>>
        /\ lookups = <<>>
        /\ loads = <<>>
        /\ out = <<>>
        /\ pc = "exit" => status = EXIT_FAILURE

\* C10: every inode load reads the group descriptor at (superblock_block +
\* 1) * block_size + ((ino - 1) / inodes_per_group) * group_desc_size, with
\* superblock_block 1 for block size 1024 and 0 otherwise, and then the
\* inode at inode_table_block * block_size + ((ino - 1) mod
\* inodes_per_group) * inode_size.
C10_LoadOffsets ==
    \A k \in 1..Len(loads) :
        /\ loads[k].grp_desc_off =
             ((IF EXT2_BLOCK_SIZE(dev.sb) = 1024 THEN 1 ELSE 0) + 1)
                 * EXT2_BLOCK_SIZE(dev.sb)
               + ((loads[k].ino - 1) \div dev.sb.s_inodes_per_group) * 32
        /\ loads[k].ino_off =
             loads[k].bg_inode_table * EXT2_BLOCK_SIZE(dev.sb)
               + ((loads[k].ino - 1) % dev.sb.s_inodes_per_group)
                   * dev.sb.s_inode_size

\* C11: scanning one directory data block always terminates, in lookup and
\* in listing alike, whatever the block holds (an entry with rec_len 0
\* included): every block scan of the run comes to its end, so every lookup
\* returns, every listing ends and the process exits.
C11_ScanTerminates == <>(pc = "exit")

=============================================================================
